---- MODULE Spec2Model ----
(***************************************************************************)
(* Model of Scripts/generate_multi_tenor.py: main() and generate_tenor()   *)
(* as a sequential process over a file system, with svi_w and the string   *)
(* and number conversions they use as operators.                           *)
(*                                                                         *)
(* Strings are sequences of one-character strings.  Reals are fixed point: *)
(* Scale units per 1.0; the literal 1e-12 of line 38 is the smallest       *)
(* positive value of that grid (EPS).  T_new is kept as the exact quotient *)
(* tenor_days / 365.                                                       *)
(***************************************************************************)
EXTENDS Integers, Sequences, FiniteSets, TLC

\* ---------------------------------------------------------------- bounds
Scale == 1000
MaxRuns == 2

\* ------------------------------------------------------ program constants
EPS == 1
DaysPerYear == 365

\* --------------------------------------------------------------- strings
S_result == <<"_", "r", "e", "s", "u", "l", "t">>
S_synthetic == <<"_", "s", "y", "n", "t", "h", "e", "t", "i", "c", "_">>
S_d == <<"d">>
S_result_json == <<"_", "r", "e", "s", "u", "l", "t", ".", "j", "s", "o", "n">>

Digits == <<"0", "1", "2", "3", "4", "5", "6", "7", "8", "9">>

IsDigit(c) == \E i \in 1..10 : Digits[i] = c

DigitVal(c) == (CHOOSE i \in 1..10 : Digits[i] = c) - 1

\* str.replace(old, new): every non-overlapping occurrence, left to right
RECURSIVE StrReplace(_, _, _)
StrReplace(s, old, new) ==
    IF Len(s) < Len(old) THEN s
    ELSE IF SubSeq(s, 1, Len(old)) = old
         THEN new \o StrReplace(SubSeq(s, Len(old) + 1, Len(s)), old, new)
         ELSE <<Head(s)>> \o StrReplace(Tail(s), old, new)

\* str.rfind("."): index of the last dot, 0 when there is none
RECURSIVE RFindDot(_, _)
RFindDot(s, i) ==
    IF i = 0 THEN 0
    ELSE IF s[i] = "." THEN i ELSE RFindDot(s, i - 1)

\* PurePath.stem: the name without its last suffix; a leading or a trailing
\* dot starts no suffix
PathStem(name) ==
    LET i == RFindDot(name, Len(name))
    IN  IF 1 < i /\ i < Len(name) THEN SubSeq(name, 1, i - 1) ELSE name

\* format of a non-negative int
RECURSIVE NatToStr(_)
NatToStr(n) ==
    IF n < 10 THEN <<Digits[n + 1]>>
    ELSE NatToStr(n \div 10) \o <<Digits[(n % 10) + 1]>>

\* f"{tenor_days}"
IntToStr(n) == IF n < 0 THEN <<"-">> \o NatToStr(-n) ELSE NatToStr(n)

RECURSIVE DigitsToNat(_, _)
DigitsToNat(s, acc) ==
    IF s = <<>> THEN acc
    ELSE DigitsToNat(Tail(s), 10 * acc + DigitVal(Head(s)))

AllDigits(s) == s # <<>> /\ \A i \in 1..Len(s) : IsDigit(s[i])

\* int(t) of a command-line word: an optional sign, then decimal digits
IntParses(s) ==
    /\ s # <<>>
    /\ IF Head(s) \in {"-", "+"} THEN AllDigits(Tail(s)) ELSE AllDigits(s)

IntParse(s) ==
    IF Head(s) = "-" THEN 0 - DigitsToNat(Tail(s), 0)
    ELSE IF Head(s) = "+" THEN DigitsToNat(Tail(s), 0)
    ELSE DigitsToNat(s, 0)

\* --------------------------------------------------------------- numbers
RECURSIVE SqrtSearch(_, _, _)
SqrtSearch(n, lo, hi) ==
    IF lo >= hi THEN lo
    ELSE LET mid == (lo + hi + 1) \div 2
         IN  IF mid * mid <= n THEN SqrtSearch(n, mid, hi)
             ELSE SqrtSearch(n, lo, mid - 1)

\* integer square root of n >= 0
ISqrt(n) == SqrtSearch(n, 0, IF n < 46340 THEN n ELSE 46340)

\* math.sqrt of a fixed-point value v >= 0, as a fixed-point value
MathSqrt(v) == ISqrt(v * Scale)

\* natural logarithm of the strikes and forwards of the model, in 1/1000
LnMilli(n) ==
    CASE n = 90 -> 4500
      [] n = 100 -> 4605
      [] n = 110 -> 4700
      [] OTHER -> 0

\* math.log(K / F) for K / F > 0, as a fixed-point value
MathLogRatio(K, F) == ((LnMilli(K) - LnMilli(F)) * Scale) \div 1000

\* svi_w(k, p): a + b * (rho * x + sqrt(x * x + sigma * sigma)), x = k - m
svi_w(k, p) ==
    LET x == k - p.m
    IN  p.a + (p.b * (((p.rho * x) \div Scale)
                      + ISqrt(x * x + p.sigma * p.sigma))) \div Scale

\* the variance unfloored: what line 38 would pass on without its max
FloorWNone(w) == w

\* max(1e-12, w)
FloorW(w) == IF w > EPS THEN w ELSE EPS


\* ------------------------------------------------------- JSON documents
\* A JSON number: its kind as written in the text and its value (prices in
\* whole units, every other quantity in 1/Scale).
JInt(v) == [k |-> "int", v |-> v]

JFloat(v) == [k |-> "float", v |-> v]

\* float(x) of a JSON number
Float(x) == x.v

\* truth value of a JSON number, of a JSON object
NumTruthy(x) == x.v # 0

DictTruthy(d) == DOMAIN d # {}

EmptyDict == <<>>

\* what dict.get returns for a missing key
PyNone == [none |-> TRUE]

IsNone(x) == "none" \in DOMAIN x

\* json.dumps(out) as the text of a file, and a file json.loads rejects
JsonDumps(doc) == [valid |-> TRUE, doc |-> doc]

MalformedText == [valid |-> FALSE, doc |-> EmptyDict]

\* ----------------------------------------------------------- the inputs
ParamsSmile ==
    [a |-> JFloat(40), b |-> JFloat(100), rho |-> JFloat(-300),
     m |-> JInt(0), sigma |-> JFloat(200)]

ParamsNegative ==
    [a |-> JFloat(-500), b |-> JFloat(100), rho |-> JFloat(0),
     m |-> JInt(0), sigma |-> JFloat(200)]

ForwardParts ==
    { ("forward" :> JInt(100)),
      ("F" :> JInt(100)),
      ("forward" :> JInt(100)) @@ ("F" :> JInt(90)),
      EmptyDict,
      ("forward" :> JInt(0)),
      ("forward" :> JInt(0)) @@ ("F" :> JInt(100)) }

SviParts ==
    { ("svi_params" :> ParamsSmile),
      ("svi" :> ParamsSmile),
      EmptyDict,
      ("svi_params" :> EmptyDict) @@ ("svi" :> ParamsNegative) }

StrikeParts ==
    { ("strikes" :> <<JInt(110), JInt(90)>>),
      ("strikes" :> <<>>),
      ("strikes" :> <<JInt(100), JInt(0)>>),
      EmptyDict }

DfParts == { EmptyDict, ("df" :> JFloat(980)) }

DefaultStrikes == ("strikes" :> <<JInt(90), JInt(100), JInt(110)>>)

DefaultDoc ==
    ("forward" :> JInt(100)) @@ ("svi_params" :> ParamsSmile) @@ DefaultStrikes

KeyDocs == { f @@ s @@ DefaultStrikes : f \in ForwardParts, s \in SviParts }

ShapeDocs ==
    { ("forward" :> JInt(100)) @@ ("svi_params" :> q) @@ ks @@ d :
        q \in {ParamsSmile, ParamsNegative}, ks \in StrikeParts, d \in DfParts }

BaseTexts ==
    { JsonDumps(d) : d \in KeyDocs \cup ShapeDocs } \cup {MalformedText}

Name_b_result == <<"b", "_", "r", "e", "s", "u", "l", "t", ".", "j", "s", "o", "n">>

Name_b == <<"b", ".", "j", "s", "o", "n">>

Name_mid == <<"a", "_", "r", "e", "s", "u", "l", "t", "_", "b", ".", "j", "s", "o", "n">>

Name_prev == <<"b", "_", "s", "y", "n", "t", "h", "e", "t", "i", "c", "_", "7", "d", "_", "r", "e", "s", "u", "l", "t", ".", "j", "s", "o", "n">>

BaseNames == {Name_b_result, Name_b, Name_mid, Name_prev}

\* Path(s): a path is its parent directory and its final component
Path(dir, name) == [parent |-> dir, name |-> name]

TenorArgs ==
    { <<>>,
      <<<<"7">>>>,
      <<<<"1", "4">>, <<"3", "0">>>>,
      <<<<"0">>>>,
      <<<<"-", "7">>>>,
      <<<<"7">>, <<"0">>, <<"3", "0">>>>,
      <<<<"7">>, <<"x">>>>,
      <<<<"7">>, <<"+", "7">>>> }

Script == "generate_multi_tenor.py"

\* the command lines and file systems a run starts from
Inputs ==
    { [argv |-> <<Script, Path("out", n)>> \o ta,
       fs |-> (Path("out", n) :> JsonDumps(DefaultDoc))] :
        n \in BaseNames, ta \in TenorArgs }
    \cup
    { [argv |-> <<Script, Path("out", Name_b_result)>> \o ta,
       fs |-> (Path("out", Name_b_result) :> t)] :
        t \in BaseTexts, ta \in TenorArgs }
    \cup
    { [argv |-> <<Script, Path("out", Name_b_result)>> \o ta,
       fs |-> (Path("out", Name_b) :> JsonDumps(DefaultDoc))] :
        ta \in TenorArgs }
    \cup
    { [argv |-> <<Script>>,
       fs |-> (Path("out", Name_b_result) :> JsonDumps(DefaultDoc))] }


\* ---------------------------------------------------- generate_tenor's parts
\* base.get("forward") or base["F"]: the first operand when it is truthy
ForwardFirst(base) == "forward" \in DOMAIN base /\ NumTruthy(base["forward"])

\* base["F"] raises KeyError
ForwardRaises(base) == ~ForwardFirst(base) /\ "F" \notin DOMAIN base

ForwardOf(base) ==
    Float(IF ForwardFirst(base) THEN base["forward"] ELSE base["F"])

\* a lookup that falls back on built-in parameters instead of None
ParamsInDefault(base) ==
    IF "svi_params" \in DOMAIN base /\ DictTruthy(base["svi_params"])
    THEN base["svi_params"]
    ELSE IF "svi" \in DOMAIN base THEN base["svi"] ELSE ParamsSmile

\* base.get("svi_params") or base.get("svi")
ParamsIn(base) ==
    IF "svi_params" \in DOMAIN base /\ DictTruthy(base["svi_params"])
    THEN base["svi_params"]
    ELSE IF "svi" \in DOMAIN base THEN base["svi"] ELSE PyNone

ParamKeys == {"a", "b", "rho", "m", "sigma"}

\* the exception of lines 26-32, "none" when p is built
ParamsError(p_in) ==
    IF IsNone(p_in) THEN "TypeError"
    ELSE IF ~(ParamKeys \subseteq DOMAIN p_in) THEN "KeyError"
    ELSE "none"

ParamsOf(p_in) ==
    [a |-> Float(p_in["a"]), b |-> Float(p_in["b"]), rho |-> Float(p_in["rho"]),
     m |-> Float(p_in["m"]), sigma |-> Float(p_in["sigma"])]

\* [float(k) for k in base["strikes"]]
StrikesOf(base) ==
    [i \in 1..Len(base["strikes"]) |-> Float(base["strikes"][i])]

\* tenor_days / 365.0, as the exact quotient
TenorYears(tenor_days) == [num |-> tenor_days, den |-> DaysPerYear]

\* the exception of math.log(K / F), "none" when k is computed
LogError(K, F) ==
    IF F = 0 THEN "ZeroDivisionError"
    ELSE IF K * F <= 0 THEN "ValueError"
    ELSE "none"

\* w of line 38
VarianceAt(K, F, p) == FloorW(svi_w(MathLogRatio(K, F), p))

\* the exception of math.sqrt(w / T_new), "none" when the value is computed
IvError(w, T) ==
    IF T.num = 0 THEN "ZeroDivisionError"
    ELSE IF w * T.num < 0 THEN "ValueError"
    ELSE "none"

\* math.sqrt(w / T_new) for w / T_new >= 0
IvOf(w, T) == MathSqrt((w * T.den) \div T.num)

\* ivs_new.insert(0, v): the values in the reverse of the strikes' order
IvsPrepend(ivs, v) == <<v>> \o ivs

\* ivs_new.append(v)
IvsAppend(ivs, v) == Append(ivs, v)

\* an identifier without the synthetic-tenor tag
FixtureIdNoTag(base_path, tenor_days) ==
    StrReplace(PathStem(base_path.name), S_result, <<>>)

\* base_path.stem.replace("_result", "") + f"_synthetic_{tenor_days}d"
FixtureId(base_path, tenor_days) ==
    StrReplace(PathStem(base_path.name), S_result, <<>>)
        \o S_synthetic \o IntToStr(tenor_days) \o S_d

\* output_dir / f"{fixture_id}_result.json"
OutputFile(output_dir, fixture_id) == Path(output_dir, fixture_id \o S_result_json)

\* base.get("df", 1.0)
DfOf(base) == IF "df" \in DOMAIN base THEN Float(base["df"]) ELSE Scale

\* the record of lines 44-52, as json.dumps writes it
FixtureOf(fixture_id, F, T, Ks, p, ivs, df) ==
    [fixtureId |-> fixture_id,
     forward |-> JFloat(F),
     T |-> T,
     strikes |-> [i \in 1..Len(Ks) |-> JFloat(Ks[i])],
     svi_params |-> [a |-> JFloat(p.a), b |-> JFloat(p.b), rho |-> JFloat(p.rho),
                     m |-> JFloat(p.m), sigma |-> JFloat(p.sigma)],
     ivs |-> [i \in 1..Len(ivs) |-> JFloat(ivs[i])],
     df |-> JFloat(df)]

\* a write in append mode: an existing file keeps its text and gains a second
\* document, which no longer parses as one
WriteTextAppend(f, path, text) ==
    [q \in DOMAIN f \cup {path} |->
        IF q # path THEN f[q]
        ELSE IF path \in DOMAIN f THEN [valid |-> FALSE, doc |-> f[path].doc]
        ELSE text]

\* Path.write_text: the file is created or replaced
WriteText(f, path, text) ==
    [q \in DOMAIN f \cup {path} |-> IF q = path THEN text ELSE f[q]]

\* an existence check that always passes
PathExistsAlways(f, path) == TRUE

\* Path.exists
PathExists(f, path) == path \in DOMAIN f

\* ------------------------------------------------------------- the state
VARIABLES
    argv,       \* sys.argv
    fs,         \* the file system: path -> text
    pc,         \* the line main or generate_tenor is at
    status,     \* the exit status, once the process has ended
    exc,        \* the exception raised, and the line that raised it
    printed,    \* what was printed, in order
    base_path, output_dir, tenors, ti,   \* main's locals; ti: the loop index
    loc,        \* generate_tenor's locals
    written,    \* the files this run has written, in order
    reads,      \* how often this run has read the base file
    run,        \* the number of the run
    fs0,        \* the file system before the first run
    fsFirst     \* the file system when the first run ended

vars == <<argv, fs, pc, status, exc, printed, base_path, output_dir, tenors, ti,
          loc, written, reads, run, fs0, fsFirst>>

NoPath == Path("", <<>>)

NoExc == [type |-> "none", line |-> 0]

NoLocals ==
    [tenor_days |-> 0, base |-> EmptyDict, F |-> 0,
     T_new |-> TenorYears(0), Ks |-> <<>>, p |-> EmptyDict, ivs_new |-> <<>>,
     ki |-> 0, w |-> 0]

Ended == {"done", "exited", "aborted"}

Init ==
    \E inp \in Inputs :
        /\ argv = inp.argv
        /\ fs = inp.fs
        /\ fs0 = inp.fs
        /\ fsFirst = inp.fs
        /\ pc = "L61"
        /\ status = 0
        /\ exc = NoExc
        /\ printed = <<>>
        /\ base_path = NoPath
        /\ output_dir = ""
        /\ tenors = <<>>
        /\ ti = 0
        /\ loc = NoLocals
        /\ written = <<>>
        /\ reads = 0
        /\ run = 1

mainLocals == <<base_path, output_dir, tenors>>
history == <<argv, run, fs0, fsFirst>>

\* sys.exit(1)
SysExit ==
    /\ pc' = "exited"
    /\ status' = 1
    /\ exc' = [type |-> "SystemExit", line |-> 0]

\* an exception no handler catches, raised in main: traceback, status 1
Raise(type, line) ==
    /\ pc' = "aborted"
    /\ status' = 1
    /\ exc' = [type |-> type, line |-> line]

\* a handler around the call of line 81 that notes the exception and goes
\* on with the next tenor
OnGenErrorContinue(type, line) ==
    /\ pc' = "L80"
    /\ status' = status
    /\ exc' = [type |-> type, line |-> line]
    /\ ti' = ti + 1

\* an exception raised in generate_tenor reaches the call of line 81, which
\* has no handler: the loop is left and the process ends
OnGenError(type, line) ==
    /\ Raise(type, line)
    /\ ti' = ti


DefaultTenors == <<14, 30>>

\* --------------------------------------------------------------- main()
\* lines 61-64
CheckArgs ==
    /\ pc = "L61"
    /\ IF Len(argv) < 2
       THEN /\ printed' = printed \o <<"usage", "example">>
            /\ SysExit
       ELSE /\ pc' = "L66"
            /\ UNCHANGED <<printed, status, exc>>
    /\ UNCHANGED <<fs, mainLocals, ti, loc, written, reads, history>>

\* lines 66-69
CheckBase ==
    /\ pc = "L66"
    /\ base_path' = argv[2]
    /\ IF ~PathExists(fs, argv[2])
       THEN /\ printed' = Append(printed, "not_found")
            /\ SysExit
       ELSE /\ pc' = "L72"
            /\ UNCHANGED <<printed, status, exc>>
    /\ UNCHANGED <<fs, output_dir, tenors, ti, loc, written, reads, history>>

\* lines 72-78
ParseTenors ==
    /\ pc = "L72"
    /\ LET words == SubSeq(argv, 3, Len(argv))
       IN  IF \E i \in 1..Len(words) : ~IntParses(words[i])
           THEN /\ Raise("ValueError", 72)
                /\ UNCHANGED <<tenors, output_dir, printed, ti>>
           ELSE /\ tenors' = IF Len(argv) > 2
                             THEN [i \in 1..Len(words) |-> IntParse(words[i])]
                             ELSE DefaultTenors
                /\ output_dir' = base_path.parent
                /\ printed' = printed \o <<"header", "tenors", "">>
                /\ ti' = 1
                /\ pc' = "L80"
                /\ UNCHANGED <<status, exc>>
    /\ UNCHANGED <<fs, base_path, loc, written, reads, history>>

\* lines 80-81: the next tenor's call of generate_tenor
CallGenerateTenor ==
    /\ pc = "L80"
    /\ ti <= Len(tenors)
    /\ loc' = [NoLocals EXCEPT !.tenor_days = tenors[ti]]
    /\ pc' = "L19"
    /\ UNCHANGED <<fs, status, exc, printed, mainLocals, ti, written, reads,
                   history>>

\* lines 83-86, and the end of the script
Finish ==
    /\ pc = "L80"
    /\ ti > Len(tenors)
    /\ printed' = printed \o <<"", "done", "fixtures", "noarb">>
    /\ pc' = "done"
    /\ status' = 0
    /\ UNCHANGED <<fs, exc, mainLocals, ti, loc, written, reads, history>>

\* ------------------------------------------------------ generate_tenor()
\* line 19
LoadBase ==
    /\ pc = "L19"
    /\ reads' = reads + 1
    /\ IF base_path \notin DOMAIN fs
       THEN OnGenError("FileNotFoundError", 19) /\ UNCHANGED loc
       ELSE IF ~fs[base_path].valid
       THEN OnGenError("JSONDecodeError", 19) /\ UNCHANGED loc
       ELSE /\ loc' = [loc EXCEPT !.base = fs[base_path].doc]
            /\ pc' = "L21"
            /\ UNCHANGED <<status, exc, ti>>
    /\ UNCHANGED <<fs, printed, mainLocals, written, history>>

\* lines 21-23
ReadForwardAndStrikes ==
    /\ pc = "L21"
    /\ IF ForwardRaises(loc.base)
       THEN OnGenError("KeyError", 21) /\ UNCHANGED loc
       ELSE IF "strikes" \notin DOMAIN loc.base
       THEN OnGenError("KeyError", 23) /\ UNCHANGED loc
       ELSE /\ loc' = [loc EXCEPT !.F = ForwardOf(loc.base),
                                  !.T_new = TenorYears(loc.tenor_days),
                                  !.Ks = StrikesOf(loc.base)]
            /\ pc' = "L25"
            /\ UNCHANGED <<status, exc, ti>>
    /\ UNCHANGED <<fs, printed, mainLocals, written, reads, history>>

\* lines 25-35
ReadParams ==
    /\ pc = "L25"
    /\ LET p_in == ParamsIn(loc.base)
       IN  IF ParamsError(p_in) # "none"
           THEN OnGenError(ParamsError(p_in), 27) /\ UNCHANGED loc
           ELSE /\ loc' = [loc EXCEPT !.p = ParamsOf(p_in),
                                      !.ivs_new = <<>>,
                                      !.ki = 1]
                /\ pc' = "L36"
                /\ UNCHANGED <<status, exc, ti>>
    /\ UNCHANGED <<fs, printed, mainLocals, written, reads, history>>

\* lines 36-38: the loop takes the next strike
ComputeVariance ==
    /\ pc = "L36"
    /\ loc.ki <= Len(loc.Ks)
    /\ LET K == loc.Ks[loc.ki]
       IN  IF LogError(K, loc.F) # "none"
           THEN OnGenError(LogError(K, loc.F), 37) /\ UNCHANGED loc
           ELSE /\ loc' = [loc EXCEPT !.w = VarianceAt(K, loc.F, loc.p)]
                /\ pc' = "L39"
                /\ UNCHANGED <<status, exc, ti>>
    /\ UNCHANGED <<fs, printed, mainLocals, written, reads, history>>

\* line 39
AppendIv ==
    /\ pc = "L39"
    /\ IF IvError(loc.w, loc.T_new) # "none"
       THEN OnGenError(IvError(loc.w, loc.T_new), 39) /\ UNCHANGED loc
       ELSE /\ loc' = [loc EXCEPT
                         !.ivs_new = IvsAppend(loc.ivs_new, IvOf(loc.w, loc.T_new)),
                         !.ki = loc.ki + 1]
            /\ pc' = "L36"
            /\ UNCHANGED <<status, exc, ti>>
    /\ UNCHANGED <<fs, printed, mainLocals, written, reads, history>>

\* lines 41-58, after the loop, and the return to line 80
WriteFixture ==
    /\ pc = "L36"
    /\ loc.ki > Len(loc.Ks)
    /\ LET fixture_id == FixtureId(base_path, loc.tenor_days)
           out == FixtureOf(fixture_id, loc.F, loc.T_new, loc.Ks, loc.p,
                            loc.ivs_new, DfOf(loc.base))
           output_file == OutputFile(output_dir, fixture_id)
       IN  /\ fs' = WriteText(fs, output_file, JsonDumps(out))
           /\ written' = Append(written, [file |-> output_file,
                                          tenor_days |-> loc.tenor_days])
    /\ printed' = Append(printed, "generated")
    /\ ti' = ti + 1
    /\ pc' = "L80"
    /\ UNCHANGED <<status, exc, mainLocals, loc, reads, history>>

\* ------------------------------------------------------------ a second run
\* the same command line again, on the file system the run before left
Rerun ==
    /\ pc \in Ended
    /\ run < MaxRuns
    /\ run' = run + 1
    /\ fsFirst' = IF run = 1 THEN fs ELSE fsFirst
    /\ pc' = "L61"
    /\ status' = 0
    /\ exc' = NoExc
    /\ printed' = <<>>
    /\ base_path' = NoPath
    /\ output_dir' = ""
    /\ tenors' = <<>>
    /\ ti' = 0
    /\ loc' = NoLocals
    /\ written' = <<>>
    /\ reads' = 0
    /\ UNCHANGED <<argv, fs, fs0>>

Next ==
    \/ CheckArgs
    \/ CheckBase
    \/ ParseTenors
    \/ CallGenerateTenor
    \/ Finish
    \/ LoadBase
    \/ ReadForwardAndStrikes
    \/ ReadParams
    \/ ComputeVariance
    \/ AppendIv
    \/ WriteFixture
    \/ Rerun

Spec == Init /\ [][Next]_vars


\* ================================================================ claims
\* helpers of the claims' statements
GenLines == 19..58

\* the j-th file this run has written, as a document
WrittenDoc(j) == fs[written[j].file].doc

\* the base document on disk, when the base path names a parseable file
BaseOnDisk == base_path \in DOMAIN fs /\ fs[base_path].valid

BaseDoc == fs[base_path].doc

LacksForward(d) == "forward" \notin DOMAIN d /\ "F" \notin DOMAIN d

LacksSvi(d) == "svi_params" \notin DOMAIN d /\ "svi" \notin DOMAIN d

\* a key of the pair is present; a key of the pair holds the five coefficients
HasForwardValue(d) == "forward" \in DOMAIN d \/ "F" \in DOMAIN d

HasSviValue(d) ==
    \E key \in {"svi_params", "svi"} :
        key \in DOMAIN d /\ ParamKeys \subseteq DOMAIN d[key]

SuppliedForwards(d) == { d[key].v : key \in {"forward", "F"} \cap DOMAIN d }

SuppliedParams(d) ==
    { [c \in ParamKeys |-> d[key][c].v] :
        key \in { x \in {"svi_params", "svi"} \cap DOMAIN d :
                    ParamKeys \subseteq DOMAIN d[x] } }

\* s without the suffix suf at its end, s itself when it does not end in suf
StripSuffix(s, suf) ==
    IF Len(s) >= Len(suf) /\ SubSeq(s, Len(s) - Len(suf) + 1, Len(s)) = suf
    THEN SubSeq(s, 1, Len(s) - Len(suf))
    ELSE s

\* the unfloored variance of a written fixture at its i-th strike
RawVariance(d, i) ==
    svi_w(MathLogRatio(d.strikes[i].v, d.forward.v),
          [a |-> d.svi_params.a.v, b |-> d.svi_params.b.v,
           rho |-> d.svi_params.rho.v, m |-> d.svi_params.m.v,
           sigma |-> d.svi_params.sigma.v])

\* C1: once generate_tenor has raised for the tenor at index ti, the process
\* has ended with status 1, and the files written are exactly those of the
\* tenors before ti, one each, in the order of the tenor list; nothing is
\* written for ti or a later tenor.
C1_AbortsOnFirstFailure ==
    exc.line \in GenLines =>
        /\ pc = "aborted"
        /\ status = 1
        /\ Len(written) = ti - 1
        /\ \A j \in 1..(ti - 1) :
              /\ written[j].tenor_days = tenors[j]
              /\ written[j].file =
                    OutputFile(base_path.parent, FixtureId(base_path, tenors[j]))
              /\ written[j].file \in DOMAIN fs

C1_Witness ==
    /\ pc = "aborted"
    /\ exc.line = 39
    /\ ti = 2
    /\ Len(tenors) = 3
    /\ Len(written) = 1

\* C2: when the base record has neither forward nor F, or neither svi_params
\* nor svi, no output file is ever written (for no tenor), and a run that
\* reaches generate_tenor ends in the lookup's exception on its first tenor.
C2_MissingKeysWriteNothing ==
    (BaseOnDisk /\ (LacksForward(BaseDoc) \/ LacksSvi(BaseDoc))) =>
        /\ written = <<>>
        /\ DOMAIN fs = DOMAIN fs0
        /\ pc \notin {"L36", "L39", "done"}
        /\ (pc \in Ended /\ reads > 0) =>
              /\ pc = "aborted"
              /\ ti = 1
              /\ exc \in {[type |-> "KeyError", line |-> 21],
                          [type |-> "TypeError", line |-> 27]}

C2_Witness ==
    /\ pc = "aborted"
    /\ exc = [type |-> "TypeError", line |-> 27]
    /\ LacksSvi(loc.base)
    /\ ~LacksForward(loc.base)
    /\ Len(tenors) = 2

\* C3: with no base-file argument, or with a base path that does not exist,
\* the process ends by sys.exit(1) after a diagnostic, having read no base
\* record, parsed no tenor and written no file.
C3_UsageErrorsExitFirst ==
    (Len(argv) < 2 \/ ~(argv[2] \in DOMAIN fs)) =>
        /\ pc \in {"L61", "L66", "exited"}
        /\ reads = 0
        /\ tenors = <<>>
        /\ written = <<>>
        /\ fs = fs0
        /\ pc \in Ended =>
              /\ pc = "exited"
              /\ status = 1
              /\ exc.type = "SystemExit"
              /\ printed = IF Len(argv) < 2 THEN <<"usage", "example">>
                           ELSE <<"not_found">>

C3_Witness ==
    /\ pc = "exited"
    /\ Len(argv) = 3
    /\ printed = <<"not_found">>

\* C4: every written fixture has the base's strikes, in the base's order,
\* and one implied volatility per strike, the i-th computed from strike i.
C4_IvsParallelToStrikes ==
    \A j \in 1..Len(written) :
        LET d == WrittenDoc(j)
            N == Len(BaseDoc["strikes"])
        IN  /\ Len(d.strikes) = N
            /\ \A i \in 1..N : d.strikes[i].v = BaseDoc["strikes"][i].v
            /\ Len(d.ivs) = N
            /\ \A i \in 1..N :
                  d.ivs[i].v = IvOf(FloorW(RawVariance(d, i)), d.T)

C4_Witness ==
    /\ pc = "done"
    /\ Len(written) = 2
    /\ Len(WrittenDoc(2).ivs) = 3
    /\ WrittenDoc(2).ivs[1] # WrittenDoc(2).ivs[3]

\* C5: when a later run of the same command line has ended, the file system
\* (the set of files and every file's text) is the one the first run left.
C5_SecondRunIdempotent ==
    (run >= 2 /\ pc \in Ended) => fs = fsFirst

C5_Witness ==
    /\ run = 2
    /\ pc = "done"
    /\ Len(written) = 2
    /\ Cardinality(DOMAIN fs) = 3

\* C6: the fixtureId of every written fixture is the base name's stem with a
\* trailing "_result" removed and the rest unchanged, then the tag
\* "_synthetic_<tenor_days>d"; the file is <fixtureId>_result.json in the base
\* file's directory.
C6_FixtureIdStripsSuffix ==
    \A j \in 1..Len(written) :
        LET id == StripSuffix(PathStem(base_path.name), S_result)
                    \o S_synthetic \o IntToStr(written[j].tenor_days) \o S_d
        IN  /\ WrittenDoc(j).fixtureId = id
            /\ written[j].file = Path(base_path.parent, id \o S_result_json)

\* C7: when forward or F carries a number and svi_params or svi carries the
\* five coefficients, neither lookup raises, and every written fixture has
\* the forward, the coefficients and the df (1.0 when absent) of the base.
C7_DualKeyLookup ==
    (BaseOnDisk /\ HasForwardValue(BaseDoc) /\ HasSviValue(BaseDoc)) =>
        /\ exc.line \notin {21, 27}
        /\ \A j \in 1..Len(written) :
              LET d == WrittenDoc(j)
              IN  /\ d.forward.v \in SuppliedForwards(BaseDoc)
                  /\ [c \in ParamKeys |-> d.svi_params[c].v]
                        \in SuppliedParams(BaseDoc)
                  /\ d.df.v = IF "df" \in DOMAIN BaseDoc
                              THEN BaseDoc["df"].v ELSE Scale

\* C8: the variance handed to line 39 is max(1e-12, w): at least the floor,
\* and the floor itself when the curve's value is <= 0; for a positive tenor
\* line 39 raises nothing; and in every written fixture the implied
\* volatility of a strike whose curve value is <= 0 is the one of the floor.
C8_VarianceFloored ==
    /\ pc = "L39" =>
          /\ loc.w >= EPS
          /\ svi_w(MathLogRatio(loc.Ks[loc.ki], loc.F), loc.p) <= 0 => loc.w = EPS
    /\ (exc.line = 39 /\ pc = "aborted") => loc.T_new.num <= 0
    /\ \A j \in 1..Len(written) :
          LET d == WrittenDoc(j)
          IN  \A i \in 1..Len(d.strikes) :
                 RawVariance(d, i) <= 0 =>
                     /\ d.ivs[i].v = IvOf(EPS, d.T)
                     /\ d.ivs[i].v > 0

C8_Witness ==
    /\ pc = "done"
    /\ Len(written) = 2
    /\ Len(WrittenDoc(1).strikes) = 2
    /\ RawVariance(WrittenDoc(1), 1) < 0

\* C9: every fixture file written has a strictly positive T (a tenor <= 0
\* ends the run before its file is written).
C9_WrittenTenorPositive ==
    \A j \in 1..Len(written) :
        /\ written[j].tenor_days > 0
        /\ WrittenDoc(j).T.num > 0

\* C10: no written file is the base file, the base file keeps the text it
\* had before the first run, and the record generate_tenor works on is that
\* text's document, for every tenor of every run.
C10_BaseNeverOverwritten ==
    /\ \A j \in 1..Len(written) : written[j].file # base_path
    /\ \A q \in DOMAIN fs0 : q \in DOMAIN fs /\ fs[q] = fs0[q]
    /\ pc \in {"L21", "L25", "L36", "L39"} => loc.base = fs0[base_path].doc

C10_Witness ==
    /\ run = 2
    /\ pc = "L21"
    /\ ti = 2
    /\ Len(written) = 1
    /\ base_path.name = Name_b_result

====
